---- MODULE Spec2Model ----
(***************************************************************************)
(* The query registry of 4CAT: backend.lib.query.SearchQuery on top of the *)
(* `queries` table (backend.lib.database.Database) and the results folder. *)
(*                                                                         *)
(* Text is a sequence of one-character strings, so that slugs, keys and    *)
(* file names are built and taken apart the way the Python code does it.   *)
(* A SearchQuery object is a "handle": it keeps its own copy (self.data)   *)
(* of the row it was constructed from.                                     *)
(***************************************************************************)
EXTENDS Integers, Sequences, FiniteSets, TLC

\* ------------------------------------------------------------------ bounds
\* the largest row count handed to finish(num_rows) and the longest list
\* handed to write_csv_and_finish
MaxNumRows == 1
\* at most this many files are ever created by write_csv_and_finish
MaxFiles == 1
\* at most this many records are made in the specification of analyses
MaxRecords == 3

\* length of hashlib.md5(...).hexdigest()
HexDigestLen == 32

\* SearchQuery objects alive at the same time (web requests, workers)
Handles == {"h1", "h2"}

\* query strings handed to SearchQuery(query=...); both slugify to "a-b"
Queries == { <<"a", " ", "B">>, <<"a", "-", "b", "!">> }

\* parameters handed to SearchQuery(parameters=...): dicts, as sequences of
\* <<key, integer value>> items
Parameters == { << >>, << <<"u", 1>> >>, << <<"u", 2>> >> }

\* file extensions handed to the constructor and to reserve_result_file
Extensions == { <<"c", "s", "v">>, <<"Z", "I", "P">> }

\* post-processor types, the query label of an analysis: one without options,
\* one with options, and one that only older records still carry
Types == { <<"t", "o", "p">>, <<"t", "o", "k">>, <<"o", "l", "d">> }

\* a post-processor that takes the output of another post-processor, not of a
\* search
Ranker == <<"r", "n", "k">>

\* the one query, parameters and extension of the single-record specification
OneQuery == { <<"a", " ", "B">> }

OneParameters == { << <<"u", 1>> >> }

OneExtension == { <<"c", "s", "v">> }

\* row counts handed to finish(num_rows): no rows, and some
NumRows == {0, MaxNumRows}

\* texts handed to update_status
Statuses == { "Queued" }

\* texts a worker hands to update_status, one after the other
StatusTexts == { "Writing results file", "Finished" }

\* config.PATH_DATA, made absolute
Folder == <<"/", "d">>

\* ---------------------------------------------------------------- text
Digits == <<"0", "1", "2", "3", "4", "5", "6", "7", "8", "9">>

HexDigits == Digits \o <<"a", "b", "c", "d", "e", "f">>

UpperCase == <<"A", "B", "C", "D", "E", "F", "G", "H", "I", "J", "K", "L", "M",
               "N", "O", "P", "Q", "R", "S", "T", "U", "V", "W", "X", "Y", "Z">>

LowerCase == <<"a", "b", "c", "d", "e", "f", "g", "h", "i", "j", "k", "l", "m",
               "n", "o", "p", "q", "r", "s", "t", "u", "v", "w", "x", "y", "z">>

Range(s) == { s[i] : i \in DOMAIN s }

UpperSet == Range(UpperCase)

LowerSet == Range(LowerCase)

DigitSet == Range(Digits)

\* the characters the pattern [a-z0-9\-] matches
SlugChars == LowerSet \cup DigitSet \cup {"-"}

IndexOf(s, c) == CHOOSE i \in DOMAIN s : s[i] = c

\* str.lower(), one character
LowerChar(c) == IF c \in UpperSet THEN LowerCase[IndexOf(UpperCase, c)] ELSE c

\* str.lower()
Lower(s) == [i \in DOMAIN s |-> LowerChar(s[i])]

\* str.replace(" ", "-")
ReplaceSpaces(s) == [i \in DOMAIN s |-> IF s[i] = " " THEN "-" ELSE s[i]]

\* re.sub(r"[^a-z0-9\-]", "", s)
StripNonSlug(s) ==
    SelectSeq(s, LAMBDA c : c \in SlugChars)

\* str(n) for n >= 0
RECURSIVE Str(_)
Str(n) == IF n < 10 THEN <<Digits[n + 1]>> ELSE Str(n \div 10) \o <<Digits[(n % 10) + 1]>>

\* ord(c) for the characters that occur in plain keys
Ord(c) ==
    CASE c = " " -> 32 [] c = "!" -> 33 [] c = "'" -> 39 [] c = "," -> 44
      [] c = "-" -> 45 [] c = ":" -> 58 [] c = "{" -> 123 [] c = "}" -> 125
      [] c \in DigitSet -> 47 + IndexOf(Digits, c)
      [] c \in UpperSet -> 64 + IndexOf(UpperCase, c)
      [] c \in LowerSet -> 96 + IndexOf(LowerCase, c)
      [] OTHER -> 63

\* the items of a dict, joined with ", "; q is the quote around keys
RECURSIVE Items(_, _)
Items(p, q) ==
    IF p = << >> THEN << >>
    ELSE <<q, p[1][1], q, ":", " ">> \o Str(p[1][2])
         \o (IF Len(p) > 1 THEN <<",", " ">> ELSE << >>) \o Items(Tail(p), q)

\* repr(parameters) of a dict
Repr(p) == <<"{">> \o Items(p, "'") \o <<"}">>

\* json.dumps(parameters) of a dict
json_dumps(p) == <<"{">> \o Items(p, "\"") \o <<"}">>

\* the digest of a text as a number: a polynomial hash stands in for MD5.  It is
\* deterministic and, like MD5 on everything the program meets, it has no
\* collision among the plain keys of this model.
RECURSIVE Digest(_, _)
Digest(s, acc) ==
    IF s = << >> THEN acc ELSE Digest(Tail(s), (acc * 127 + Ord(Head(s))) % 16777216)

\* n in hexadecimal, left-padded with zeros to `width` digits
RECURSIVE HexOf(_, _)
HexOf(n, width) ==
    IF width = 0 THEN << >> ELSE HexOf(n \div 16, width - 1) \o <<HexDigits[(n % 16) + 1]>>

\* hashlib.md5(text.encode("utf-8")).hexdigest()
md5_hexdigest(s) == HexOf(Digest(s, 7), HexDigestLen)

\* SearchQuery.get_key
get_key(query, parameters) == md5_hexdigest(Repr(parameters) \o query)

\* get_key for the queries and parameters of this model, computed once
KeyTable == [q \in Queries \cup Types \cup {Ranker}, p \in Parameters |-> get_key(q, p)]

\* path.split("/").pop()
RECURSIVE LastComponent(_)
LastComponent(path) ==
    IF \E i \in DOMAIN path : path[i] = "/"
    THEN LastComponent(Tail(path))
    ELSE path

\* ---------------------------------------------------------------- state
VARIABLES
    rows,     \* the `queries` table: a sequence of rows, in insertion order
    disk,     \* the results folder: file name -> "partial" | "complete"
    handles,  \* the SearchQuery objects: handle -> [data, pc, wn]
    last,     \* the last call: its name, its handle and how it ended
    jobs,     \* the job queue: a set of <<jobtype, remote_id>>
    pending   \* constructor calls that have begun: handle -> the call's frame

vars == <<rows, disk, handles, last, jobs, pending>>

\* a key of self.data that was never set (num_rows before finish())
Absent == -1

\* Python's None as a return value
None == <<"None">>

\* the sentinel check_query_finished returns for a finished, empty query
EmptyFile == <<"e", "m", "p", "t", "y", "_", "f", "i", "l", "e">>

\* what a call left behind: out is "ok" or the exception raised, ret is the
\* value returned where that is a boolean (and FALSE where nothing is returned)
Call(op, h, out, ret) == [op |-> op, h |-> h, out |-> out, ret |-> ret]

\* ------------------------------------------------------------- database
\* the lookup with its two replacement values in the wrong order
RowsByKeyAndQuery_swapped(key, query) ==
    { i \in DOMAIN rows : rows[i].key = query /\ rows[i].query = key }

\* Database.fetchone("SELECT * FROM queries WHERE key = %s AND query = %s"):
\* the positions of the matching rows
RowsByKeyAndQuery(key, query) ==
    { i \in DOMAIN rows : rows[i].key = key /\ rows[i].query = query }

\* the lookup by key without its WHERE clause
RowsByKey_any(key) == DOMAIN rows

\* Database.fetchone("SELECT * FROM queries WHERE key = %s")
RowsByKey(key) == { i \in DOMAIN rows : rows[i].key = key }

\* Database.insert("queries", data): columns the data does not name take the
\* column default (num_rows 0, key_parent '')
db_insert(rs, data) ==
    Append(rs, [data EXCEPT !.num_rows = IF @ = Absent THEN 0 ELSE @])

\* the rows an UPDATE ... WHERE query = %s AND key = %s touches
MatchQueryAndKey(rs, data) ==
    { i \in DOMAIN rs : rs[i].query = data.query /\ rs[i].key = data.key }

\* the rows an UPDATE ... WHERE key = %s touches
MatchKey(rs, data) == { i \in DOMAIN rs : rs[i].key = data.key }

\* Database.update: the table after the update; cursor.rowcount is the
\* cardinality of `where`
db_update(rs, where, column, value) ==
    [i \in DOMAIN rs |-> IF i \in where THEN [rs[i] EXCEPT ![column] = value] ELSE rs[i]]

\* ----------------------------------------------------------- filesystem
\* os.path.isfile(path)
isfile(files, path) == \E f \in DOMAIN files : path = Folder \o <<"/">> \o f

\* open(path, "w") on the results folder: creates or truncates the file
open_w(files, name) ==
    [f \in DOMAIN files \cup {name} |-> IF f = name THEN "partial" ELSE files[f]]

\* ------------------------------------------------ SearchQuery, pure parts
\* the slug of a query string, reserve_result_file
QueryBit(query) == StripNonSlug(Lower(ReplaceSpaces(query)))

\* reserve_result_file without its while loop: the first path, whatever
\* is on disk
Probe_noLoop(files, file, ext, index) ==
    Folder \o <<"/">> \o file \o <<".">> \o Lower(ext)

\* a probe that goes on two names at a time
RECURSIVE Probe_byTwo(_, _, _, _)
Probe_byTwo(files, file, ext, index) ==
    LET path == Folder \o <<"/">> \o file
                \o (IF index = 0 THEN << >> ELSE <<"-">> \o Str(index))
                \o <<".">> \o Lower(ext)
    IN IF isfile(files, path) THEN Probe_byTwo(files, file, ext, index + 2) ELSE path

\* the while loop of reserve_result_file: the first path of the sequence
\* file.ext, file-1.ext, file-2.ext, ... at which there is no file
RECURSIVE Probe(_, _, _, _)
Probe(files, file, ext, index) ==
    LET path == Folder \o <<"/">> \o file
                \o (IF index = 0 THEN << >> ELSE <<"-">> \o Str(index))
                \o <<".">> \o Lower(ext)
    IN IF isfile(files, path) THEN Probe(files, file, ext, index + 1) ELSE path

\* a constructor that never reserves: the name stays empty
ReservedName_none(files, data, ext) == << >>

\* a file name built from the slug alone, without the key
ReservedName_noKey(files, data, ext) ==
    LastComponent(Probe(files, QueryBit(data.query), ext, 0))

\* the file name reserve_result_file chooses for a record
ReservedName(files, data, ext) ==
    LastComponent(Probe(files, QueryBit(data.query) \o <<"-">> \o data.key, ext, 0))

\* SearchQuery.get_results_path
get_results_path(data) == Folder \o <<"/">> \o data.result_file

\* SearchQuery.check_query_finished
check_query_finished(files, data) ==
    IF data.is_finished /\ data.result_file # << >> /\ isfile(files, get_results_path(data))
    THEN get_results_path(data)
    ELSE IF data.is_finished /\ data.is_empty THEN EmptyFile ELSE None

\* self.data that forgets the parent
NewData_noParent(key, query, parameters, parent) ==
    [key |-> key, query |-> query, parameters |-> json_dumps(parameters),
     result_file |-> << >>, status |-> "", is_empty |-> FALSE, is_finished |-> FALSE,
     num_rows |-> Absent, key_parent |-> << >>]

\* self.data of a record that is not in the database yet
NewData(key, query, parameters, parent) ==
    [key |-> key, query |-> query, parameters |-> json_dumps(parameters),
     result_file |-> << >>, status |-> "", is_empty |-> FALSE, is_finished |-> FALSE,
     num_rows |-> Absent, key_parent |-> parent]

\* a fresh object around self.data
Handle(data) == [data |-> data, pc |-> "idle", wn |-> 0]

Idle(h) == IF h \in DOMAIN handles THEN handles[h].pc = "idle" ELSE FALSE

\* a name may be (re)bound to a new object unless that object is mid-write
Free(h) == IF h \in DOMAIN handles THEN handles[h].pc = "idle" ELSE TRUE

Bind(h, obj) == [x \in DOMAIN handles \cup {h} |-> IF x = h THEN obj ELSE handles[x]]

\* the (query, parameters) pairs of the several-record specification: two
\* queries with one slug, and one query with two parameter sets
Pairs == { <<q, << >> >> : q \in Queries } \cup { <<q, << <<"u", 1>> >> >> : q \in OneQuery }

\* keys handed to SearchQuery(key=...): the keys of those pairs, and one more
Keys == { KeyTable[qp[1], qp[2]] : qp \in Pairs } \cup { md5_hexdigest(<<"?">>) }

\* the key of the single-record specification
OneKeys == { KeyTable[q, p] : q \in OneQuery, p \in OneParameters }

\* what a root record is to the "accepts" of a post-processor
SearchKind == <<"s", "e", "a", "r", "c", "h">>

\* the post-processors there have been, by type: the extension of the result
\* file, the names of the options and the kinds of record they accept
EarlierCatalog ==
    [t \in Types \cup {Ranker} |->
        [extension |-> IF t = <<"t", "o", "k">> THEN <<"Z", "I", "P">> ELSE <<"c", "s", "v">>,
         options |-> IF t \in { <<"t", "o", "k">>, Ranker } THEN {"u"} ELSE {},
         accepts |-> IF t = Ranker THEN { <<"t", "o", "k">> } ELSE {SearchKind}]]

\* load_postprocessors(): the post-processors there are now
Catalog == [t \in DOMAIN EarlierCatalog \ { <<"o", "l", "d">> } |-> EarlierCatalog[t]]

\* the (query, parameters) pairs of root queries in the specification of analyses
RootPairs == { <<q, << >> >> : q \in Queries }

RootKeys == { KeyTable[qp[1], qp[2]] : qp \in RootPairs }

\* the (type, options) pairs of analyses: the type with options is queued with
\* two sets of options
AnalysisPairs ==
    { <<t, << >> >> : t \in Types } \cup { << <<"t", "o", "k">>, << <<"u", 1>> >> >> }

\* values of the constructor's parent argument: none, or the key of a root
Parents == { << >> } \cup RootKeys

\* files that may lie in the results folder before the first query is made
PreExisting ==
    { QueryBit(q) \o <<"-">> \o KeyTable[q, << >>] \o <<".", "c", "s", "v">> : q \in OneQuery }

\* values handed to write_csv_and_finish: not a list, an empty list, a list
\* of something else than dicts, and a list of MaxNumRows dicts
CsvData ==
    { [kind |-> k, len |-> 0] : k \in {"str", "empty"} }
    \cup { [kind |-> k, len |-> n] : k \in {"scalars", "dicts"}, n \in NumRows \ {0} }

Init ==
    /\ rows = << >>
    /\ disk = << >>
    /\ handles = << >>
    /\ last = Call("init", "-", "ok", FALSE)
    /\ jobs = {}
    /\ pending = << >>

\* ------------------------------------------------------------ operations
\* a constructor that, when it finds the row, stores the arguments of this
\* call over it (an upsert)
ResolveOrCreate_overwrites(h, query, parameters, parent, extension) ==
    LET key == KeyTable[query, parameters]
        data == NewData(key, query, parameters, parent)
        found == RowsByKeyAndQuery(key, query)
        base == IF found = {} THEN db_insert(rows, data) ELSE rows
        file == ReservedName(disk, data, extension)
        stored == db_update(db_update(base, MatchQueryAndKey(base, data), "key_parent", parent),
                            MatchQueryAndKey(base, data), "result_file", file)
    IN /\ Free(h)
       /\ rows' = stored
       /\ \E i \in MatchQueryAndKey(stored, data) : handles' = Bind(h, Handle(stored[i]))
       /\ UNCHANGED disk
       /\ last' = Call("create", h, "ok", found = {})

\* SearchQuery(query, parameters, parent=parent, extension=extension): load the
\* row with this key and query, or insert it and reserve its result file
ResolveOrCreate(h, query, parameters, parent, extension) ==
    LET key == KeyTable[query, parameters]
        found == RowsByKeyAndQuery(key, query)
    IN /\ Free(h)
       /\ IF found # {}
          THEN /\ \E i \in found : handles' = Bind(h, Handle(rows[i]))
               /\ UNCHANGED <<rows, disk>>
               /\ last' = Call("create", h, "ok", FALSE)
          ELSE LET data == NewData(key, query, parameters, parent)
                   inserted == db_insert(rows, data)
                   file == ReservedName(disk, data, extension)
               IN /\ rows' = db_update(inserted, MatchQueryAndKey(inserted, data),
                                       "result_file", file)
                  /\ handles' = Bind(h, Handle([data EXCEPT !.result_file = file]))
                  /\ UNCHANGED disk
                  /\ last' = Call("create", h, "ok", TRUE)

\* SearchQuery(key=key): load the row with this key, or fail
ResolveByKey(h, key) ==
    /\ Free(h)
    /\ IF RowsByKey(key) = {}
       THEN /\ last' = Call("load", h, "TypeError", FALSE)
            /\ UNCHANGED <<rows, disk, handles>>
       ELSE /\ \E i \in RowsByKey(key) : handles' = Bind(h, Handle(rows[i]))
            /\ last' = Call("load", h, "ok", FALSE)
            /\ UNCHANGED <<rows, disk>>

\* the constructor without its check of query and parameters: with query None
\* the row is inserted before reserve_result_file fails on None.replace
ConstructWithout_noGuard(h) ==
    /\ Free(h)
    /\ rows' = db_insert(rows, NewData(md5_hexdigest(<<"N", "o", "n", "e">>), None, << >>, << >>))
    /\ last' = Call("construct", h, "AttributeError", FALSE)
    /\ UNCHANGED <<disk, handles>>

\* SearchQuery() with no key and without query or parameters
ConstructWithout(h) ==
    /\ Free(h)
    /\ last' = Call("construct", h, "TypeError", FALSE)
    /\ UNCHANGED <<rows, disk, handles>>

\* finish() that marks the row finished and forgets the row count
FinishRows_noNumRows(data, n) ==
    db_update(rows, MatchQueryAndKey(rows, data), "is_finished", TRUE)

\* the body of SearchQuery.finish on self.data: the table and self.data after it
FinishRows(data, n) ==
    db_update(db_update(rows, MatchQueryAndKey(rows, data), "is_finished", TRUE),
              MatchQueryAndKey(rows, data), "num_rows", n)

FinishData(data, n) == [data EXCEPT !.is_finished = TRUE, !.num_rows = n]

\* finish() without its guard
FinishRaises_never(data) == FALSE

\* the guard of SearchQuery.finish
FinishRaises(data) == data.is_finished

\* SearchQuery.finish(num_rows)
Finish(h, n) ==
    /\ Idle(h)
    /\ IF FinishRaises(handles[h].data)
       THEN /\ last' = Call("finish", h, "RuntimeError", FALSE)
            /\ UNCHANGED <<rows, disk, handles>>
       ELSE /\ rows' = FinishRows(handles[h].data, n)
            /\ handles' = [handles EXCEPT ![h].data = FinishData(@, n)]
            /\ last' = Call("finish", h, "ok", FALSE)
            /\ UNCHANGED disk

\* update_status() that writes the table and forgets self.data
UpdateStatus_tableOnly(h, status) ==
    /\ Idle(h)
    /\ rows' = db_update(rows, MatchKey(rows, handles[h].data), "status", status)
    /\ last' = Call("update_status", h, "ok", MatchKey(rows, handles[h].data) # {})
    /\ UNCHANGED <<disk, handles>>

\* SearchQuery.update_status(status)
UpdateStatus(h, status) ==
    /\ Idle(h)
    /\ handles' = [handles EXCEPT ![h].data.status = status]
    /\ rows' = db_update(rows, MatchKey(rows, handles[h].data), "status", status)
    /\ last' = Call("update_status", h, "ok", MatchKey(rows, handles[h].data) # {})
    /\ UNCHANGED disk

\* set_empty() that flips the flag
SetEmpty_toggles(h) ==
    /\ Idle(h)
    /\ rows' = [i \in DOMAIN rows |->
                  IF i \in MatchQueryAndKey(rows, handles[h].data)
                  THEN [rows[i] EXCEPT !.is_empty = ~@] ELSE rows[i]]
    /\ last' = Call("set_empty", h, "ok", FALSE)
    /\ UNCHANGED <<disk, handles>>

\* set_empty() that writes the neighbouring boolean column
SetEmpty_wrongColumn(h) ==
    /\ Idle(h)
    /\ rows' = db_update(rows, MatchQueryAndKey(rows, handles[h].data), "is_finished", TRUE)
    /\ last' = Call("set_empty", h, "ok", FALSE)
    /\ UNCHANGED <<disk, handles>>

\* SearchQuery.set_empty()
SetEmpty(h) ==
    /\ Idle(h)
    /\ rows' = db_update(rows, MatchQueryAndKey(rows, handles[h].data), "is_empty", TRUE)
    /\ last' = Call("set_empty", h, "ok", FALSE)
    /\ UNCHANGED <<disk, handles>>

\* reserve_result_file() without its guard
ReserveRaises_never(data) == FALSE

\* the guard of SearchQuery.reserve_result_file
ReserveRaises(data) == data.is_finished

\* reserve_result_file() that raises when its update matched no row
ReserveResultFile_raises(h, extension) ==
    /\ Idle(h)
    /\ IF ReserveRaises(handles[h].data) \/ MatchQueryAndKey(rows, handles[h].data) = {}
       THEN /\ last' = Call("reserve", h, "RuntimeError", FALSE)
            /\ UNCHANGED <<rows, disk, handles>>
       ELSE LET data == handles[h].data
                file == ReservedName(disk, data, extension)
            IN /\ rows' = db_update(rows, MatchQueryAndKey(rows, data), "result_file", file)
               /\ handles' = [handles EXCEPT ![h].data.result_file = file]
               /\ last' = Call("reserve", h, "ok", TRUE)
               /\ UNCHANGED disk

\* SearchQuery.reserve_result_file(extension)
ReserveResultFile(h, extension) ==
    /\ Idle(h)
    /\ IF ReserveRaises(handles[h].data)
       THEN /\ last' = Call("reserve", h, "RuntimeError", FALSE)
            /\ UNCHANGED <<rows, disk, handles>>
       ELSE LET data == handles[h].data
                file == ReservedName(disk, data, extension)
            IN /\ rows' = db_update(rows, MatchQueryAndKey(rows, data), "result_file", file)
               /\ handles' = [handles EXCEPT ![h].data.result_file = file]
               /\ last' = Call("reserve", h, "ok", MatchQueryAndKey(rows, data) # {})
               /\ UNCHANGED disk

\* SearchQuery.check_query_finished()
CheckQueryFinished(h) ==
    /\ Idle(h)
    /\ last' = Call("check", h, "ok", FALSE)
    /\ UNCHANGED <<rows, disk, handles>>

\* SearchQuery.is_finished()
IsFinished(h) ==
    /\ Idle(h)
    /\ last' = Call("is_finished", h, "ok", FALSE)
    /\ UNCHANGED <<rows, disk, handles>>

\* SearchQuery.get_status()
GetStatus(h) ==
    /\ Idle(h)
    /\ last' = Call("get_status", h, "ok", FALSE)
    /\ UNCHANGED <<rows, disk, handles>>

\* the file name of a path in the results folder
NameOf(path) == SubSeq(path, Len(Folder) + 2, Len(path))

\* write_csv_and_finish(data), up to and including open(path, "w"): the
\* argument checks, then the result file is created or truncated
WriteCsvOpen(h, data) ==
    /\ Idle(h)
    /\ IF data.kind \in {"str", "scalars"}
       THEN /\ last' = Call("write_csv", h, "TypeError", FALSE)
            /\ UNCHANGED <<rows, disk, handles>>
       ELSE IF data.kind = "empty"
       THEN /\ last' = Call("write_csv", h, "ValueError", FALSE)
            /\ UNCHANGED <<rows, disk, handles>>
       ELSE LET name == NameOf(get_results_path(handles[h].data))
            IN /\ IF name \in DOMAIN disk THEN TRUE ELSE Cardinality(DOMAIN disk) < MaxFiles
               /\ disk' = open_w(disk, name)
               /\ handles' = [handles EXCEPT ![h].pc = "writing", ![h].wn = data.len]
               /\ last' = Call("write_open", h, "ok", FALSE)
               /\ UNCHANGED rows

\* write_csv_and_finish, the rows written and the file closed (end of `with`)
WriteCsvClose(h) ==
    /\ h \in DOMAIN handles
    /\ handles[h].pc = "writing"
    /\ LET name == NameOf(get_results_path(handles[h].data))
           others == { x \in DOMAIN handles \ {h} :
                         /\ handles[x].pc = "writing"
                         /\ NameOf(get_results_path(handles[x].data)) = name }
       IN disk' = [disk EXCEPT ![name] = IF others = {} THEN "complete" ELSE "partial"]
    /\ handles' = [handles EXCEPT ![h].pc = "written"]
    /\ last' = Call("write_close", h, "ok", FALSE)
    /\ UNCHANGED rows

\* write_csv_and_finish, its last line: self.finish(len(data))
WriteCsvFinish(h) ==
    /\ h \in DOMAIN handles
    /\ handles[h].pc = "written"
    /\ IF FinishRaises(handles[h].data)
       THEN /\ last' = Call("write_csv", h, "RuntimeError", FALSE)
            /\ handles' = [handles EXCEPT ![h].pc = "idle", ![h].wn = 0]
            /\ UNCHANGED <<rows, disk>>
       ELSE /\ rows' = FinishRows(handles[h].data, handles[h].wn)
            /\ handles' = [handles EXCEPT ![h].data = FinishData(@, handles[h].wn),
                                          ![h].pc = "idle", ![h].wn = 0]
            /\ last' = Call("write_csv", h, "ok", FALSE)
            /\ UNCHANGED disk

\* One record, every operation, two objects.
Next ==
    \/ \E h \in Handles, q \in OneQuery, p \in OneParameters, e \in OneExtension :
          ResolveOrCreate(h, q, p, << >>, e)
          /\ UNCHANGED <<jobs, pending>>
    \/ \E h \in Handles, k \in OneKeys : ResolveByKey(h, k)
          /\ UNCHANGED <<jobs, pending>>
    \/ \E h \in Handles, n \in NumRows : Finish(h, n)
          /\ UNCHANGED <<jobs, pending>>
    \/ \E h \in Handles, s \in Statuses : UpdateStatus(h, s)
          /\ UNCHANGED <<jobs, pending>>
    \/ \E h \in Handles : SetEmpty(h)
          /\ UNCHANGED <<jobs, pending>>
    \/ \E h \in Handles, e \in OneExtension : ReserveResultFile(h, e)
          /\ UNCHANGED <<jobs, pending>>
    \/ \E h \in Handles : CheckQueryFinished(h)
          /\ UNCHANGED <<jobs, pending>>
    \/ \E h \in Handles : IsFinished(h)
          /\ UNCHANGED <<jobs, pending>>
    \/ \E h \in Handles : GetStatus(h)
          /\ UNCHANGED <<jobs, pending>>
    \/ \E h \in Handles, d \in CsvData : WriteCsvOpen(h, d)
          /\ UNCHANGED <<jobs, pending>>
    \/ \E h \in Handles : WriteCsvClose(h)
          /\ UNCHANGED <<jobs, pending>>
    \/ \E h \in Handles : WriteCsvFinish(h)
          /\ UNCHANGED <<jobs, pending>>

Spec == Init /\ [][Next]_vars

\* Several records, created, loaded and reserved again, in a results folder
\* that may hold a file from earlier.
InitRecords ==
    /\ rows = << >>
    /\ disk \in { [f \in S |-> "complete"] : S \in SUBSET PreExisting }
    /\ handles = << >>
    /\ last = Call("init", "-", "ok", FALSE)
    /\ jobs = {}
    /\ pending = << >>

NextRecords ==
    \/ \E h \in Handles, qp \in Pairs, e \in OneExtension :
          ResolveOrCreate(h, qp[1], qp[2], << >>, e)
          /\ UNCHANGED <<jobs, pending>>
    \/ \E h \in Handles, k \in Keys : ResolveByKey(h, k)
          /\ UNCHANGED <<jobs, pending>>
    \/ \E h \in Handles : ConstructWithout(h)
          /\ UNCHANGED <<jobs, pending>>
    \/ \E h \in Handles, e \in Extensions : ReserveResultFile(h, e)
          /\ UNCHANGED <<jobs, pending>>

SpecRecords == InitRecords /\ [][NextRecords]_vars

\* One worker object that resolves the record and calls write_csv_and_finish,
\* one web object that loads the record by key and asks whether it is finished.
Writer == "h1"

Reader == "h2"

NextWriterReader ==
    \/ \E q \in OneQuery, p \in OneParameters, e \in OneExtension :
          ResolveOrCreate(Writer, q, p, << >>, e)
          /\ UNCHANGED <<jobs, pending>>
    \/ \E s \in StatusTexts : UpdateStatus(Writer, s)
          /\ UNCHANGED <<jobs, pending>>
    \/ \E d \in CsvData : WriteCsvOpen(Writer, d)
          /\ UNCHANGED <<jobs, pending>>
    \/ WriteCsvClose(Writer) /\ UNCHANGED <<jobs, pending>>
    \/ WriteCsvFinish(Writer) /\ UNCHANGED <<jobs, pending>>
    \/ \E k \in OneKeys : ResolveByKey(Reader, k)
          /\ UNCHANGED <<jobs, pending>>
    \/ CheckQueryFinished(Reader) /\ UNCHANGED <<jobs, pending>>
    \/ GetStatus(Reader) /\ UNCHANGED <<jobs, pending>>

SpecWriterReader == Init /\ [][NextWriterReader]_vars

\* the web tool, one request at a time
Caller == "h1"

\* show_results: the rows of root queries, "WHERE key_parent = ''"
RootListing(rs) == { i \in DOMAIN rs : rs[i].key_parent = << >> }

\* show_results: the rows under a root, "WHERE key_parent = %s"
ChildrenListing(rs, key) == { i \in DOMAIN rs : rs[i].key_parent = key }

\* the type column of a row: for an analysis, the label it was made with
TypeOf(row) == row.query

\* the kind of output of a record
KindOf(row) == IF row.key_parent = << >> THEN SearchKind ELSE TypeOf(row)

\* SearchQuery.get_compatible_postprocessors(): the types of the catalog that
\* accept the record
get_compatible_postprocessors(row) == { t \in DOMAIN Catalog : KindOf(row) \in Catalog[t].accepts }

\* SearchQuery.get_analyses(): the direct children of the record, as positions
\* in the table in the order of insertion, by category
get_analyses(rs, row) ==
    [category \in {"running", "queued"} |->
        SelectSeq([i \in DOMAIN rs |-> i],
                  LAMBDA i : /\ rs[i].key_parent = row.key
                             /\ rs[i].is_finished = (category = "queued"))]

\* the loop of show_result that deletes a type whatever its options are
StillAvailable_any(unfinished, rs, subqueries) ==
    unfinished \ { TypeOf(rs[subqueries[n]]) : n \in DOMAIN subqueries }

\* the loop of show_result over the subqueries of one category: the types that
\* are left of unfinished_postprocessors
RECURSIVE StillAvailable(_, _, _)
StillAvailable(unfinished, rs, subqueries) ==
    IF subqueries = << >>
    THEN unfinished
    ELSE LET type == TypeOf(rs[Head(subqueries)])
         IN StillAvailable(IF type \in unfinished /\ Catalog[type].options = {}
                           THEN unfinished \ {type} ELSE unfinished,
                           rs, Tail(subqueries))

\* show_result: available_postprocessors for the record
available_postprocessors(rs, row) ==
    LET analyses == get_analyses(rs, row)
    IN StillAvailable(StillAvailable(get_compatible_postprocessors(row), rs, analyses["running"]),
                      rs, analyses["queued"])

\* show_result: subquery["postprocessor"] of the subqueries it goes through
\* (the type's descriptor, or an empty dict)
show_result_subqueries(rs, row) ==
    LET analyses == get_analyses(rs, row)
        processors == get_compatible_postprocessors(row)
    IN [i \in Range(analyses["running"]) \cup Range(analyses["queued"]) |->
           IF TypeOf(rs[i]) \in processors THEN Catalog[TypeOf(rs[i])] ELSE << >>]

\* show_results: query["subqueries"] of a root
show_results_subqueries(rs, row) ==
    { i \in ChildrenListing(rs, row.key) : TypeOf(rs[i]) \in DOMAIN Catalog }

\* check_postprocessor for the keys of the children of a root: the rows it
\* lists, or the exception that ends it
check_postprocessor(rs, keys) ==
    LET found == { i \in DOMAIN rs : rs[i].key \in keys }
    IN IF \E i \in found : TypeOf(rs[i]) \notin DOMAIN Catalog
       THEN [out |-> "KeyError", subqueries |-> {}]
       ELSE [out |-> "ok", subqueries |-> found]

\* there is room for a record of this pair: it is stored, or the table is not full
Room(query, parameters) ==
    IF RowsByKeyAndQuery(KeyTable[query, parameters], query) # {}
    THEN TRUE
    ELSE Len(rows) < MaxRecords

\* there is a record of this pair
Known(query, parameters) == RowsByKeyAndQuery(KeyTable[query, parameters], query) # {}

\* Root queries are made without a parent; analyses are made under a root, with
\* the extension of their type; every record is resolved again with any parent
\* and extension; roots are loaded by key.
NextAnalyses ==
    \/ \E qp \in RootPairs, e \in OneExtension :
          Room(qp[1], qp[2]) /\ ResolveOrCreate(Caller, qp[1], qp[2], << >>, e)
          /\ UNCHANGED <<jobs, pending>>
    \/ \E qp \in AnalysisPairs, parent \in RootKeys :
          /\ Room(qp[1], qp[2])
          /\ ResolveOrCreate(Caller, qp[1], qp[2], parent, EarlierCatalog[qp[1]].extension)
          /\ UNCHANGED <<jobs, pending>>
    \/ \E qp \in RootPairs \cup AnalysisPairs, parent \in Parents, e \in Extensions :
          Known(qp[1], qp[2]) /\ ResolveOrCreate(Caller, qp[1], qp[2], parent, e)
          /\ UNCHANGED <<jobs, pending>>
    \/ \E k \in RootKeys : ResolveByKey(Caller, k)
          /\ UNCHANGED <<jobs, pending>>

SpecAnalyses == Init /\ [][NextAnalyses]_vars

\* ------------------------------------------------------------ the web tool
\* the object of the analysis in a request of the web tool
Analysis == "h2"

\* values a request gives for an option
Choices == {1, 2}

\* what validateQuery returns for a form: True, a message, or None (it ends
\* without a return statement when a text query has passed every test)
Validations == {"True", "message", "None"}

\* a key that no record has
UnknownKey == md5_hexdigest(<<"?">>)

\* queue_postprocessor: the options dict made from the request, one item for
\* each option of the post-processor
RequestOptions(descriptor, choice) ==
    IF descriptor.options = {}
    THEN << >>
    ELSE << <<CHOOSE o \in descriptor.options : TRUE, choice>> >>

\* the query label of an analysis: its post-processor type
LabelOf(type) == type

\* the keys of the analyses that requests can make
AnalysisKeys ==
    { KeyTable[LabelOf(t), RequestOptions(Catalog[t], c)] : t \in DOMAIN Catalog, c \in Choices }

\* keys that requests name
WebKeys == RootKeys \cup AnalysisKeys \cup {UnknownKey}

\* JobQueue.add_job(jobtype, remote_id): the queue after it, or the exception
\* for a job that is already in the queue
add_job(queue, jobtype, remote_id) ==
    IF <<jobtype, remote_id>> \in queue
    THEN [out |-> "JobAlreadyExistsException", jobs |-> queue]
    ELSE [out |-> "ok", jobs |-> queue \cup { <<jobtype, remote_id>> }]

\* the check of the constructor's arguments when no key is given
ConstructRaises(query, parameters) == query = None \/ parameters = None

\* a constructor that looks for the row under the parent of the call only
Constructions_perParent(rs, files, query, parameters, parent, extension) ==
    LET key == KeyTable[query, parameters]
        found == { i \in DOMAIN rs : /\ rs[i].key = key /\ rs[i].query = query
                                     /\ rs[i].key_parent = parent }
        data == NewData(key, query, parameters, parent)
        inserted == db_insert(rs, data)
        file == ReservedName(files, data, extension)
    IN IF found # {}
       THEN { [rows |-> rs, data |-> rs[i], is_new |-> FALSE] : i \in found }
       ELSE { [rows |-> db_update(inserted, MatchQueryAndKey(inserted, data), "result_file", file),
               data |-> [data EXCEPT !.result_file = file],
               is_new |-> TRUE] }

\* SearchQuery(query, parameters, parent=parent, extension=extension) on a table
\* and a results folder: the table after it, self.data, and whether the row
\* was inserted by this call
Constructions(rs, files, query, parameters, parent, extension) ==
    LET key == KeyTable[query, parameters]
        found == { i \in DOMAIN rs : rs[i].key = key /\ rs[i].query = query }
        data == NewData(key, query, parameters, parent)
        inserted == db_insert(rs, data)
        file == ReservedName(files, data, extension)
    IN IF found # {}
       THEN { [rows |-> rs, data |-> rs[i], is_new |-> FALSE] : i \in found }
       ELSE { [rows |-> db_update(inserted, MatchQueryAndKey(inserted, data), "result_file", file),
               data |-> [data EXCEPT !.result_file = file],
               is_new |-> TRUE] }

\* helpers.get_available_postprocessors(query)
get_available_postprocessors(rs, row) == available_postprocessors(rs, row)

\* the objects of a request: its query and, when it has made one, its analysis
Objects(query, analysis) ==
    [x \in {Caller, Analysis} |-> IF x = Caller THEN Handle(query) ELSE Handle(analysis)]

\* the object of a request that has made no analysis
Object(query) == [x \in {Caller} |-> Handle(query)]

\* abort(404) in a request that has made no object
NotFound(op) ==
    /\ last' = Call(op, Caller, "404", FALSE)
    /\ handles' = << >>
    /\ UNCHANGED <<rows, disk, jobs, pending>>

\* abort(404) in a request that has loaded a record
NotFoundFor(op, query) ==
    /\ last' = Call(op, Caller, "404", FALSE)
    /\ handles' = Object(query)
    /\ UNCHANGED <<rows, disk, jobs, pending>>

\* an exception that ends a request
Raised(op, exception) ==
    /\ last' = Call(op, Caller, exception, FALSE)
    /\ handles' = << >>
    /\ UNCHANGED <<rows, disk, jobs, pending>>

\* string_query: POST /queue-query/ with a form for which validateQuery
\* returned `valid`
StringQuery(valid, platform, parameters) ==
    IF valid = "message"
    THEN /\ last' = Call("string_query", Caller, "invalid", FALSE)
         /\ handles' = << >>
         /\ UNCHANGED <<rows, disk, jobs, pending>>
    ELSE IF valid = "None"
    THEN Raised("string_query", "TypeError")
    ELSE IF ConstructRaises(None, parameters)
    THEN Raised("string_query", "TypeError")
    ELSE \E made \in Constructions(rows, disk, None, parameters, << >>, <<"c", "s", "v">>) :
            /\ rows' = made.rows
            /\ jobs' = add_job(jobs, platform, made.data.key).jobs
            /\ handles' = Object(made.data)
            /\ last' = Call("string_query", Caller, "ok", made.is_new)
            /\ UNCHANGED <<disk, pending>>

\* check_query: GET /check_query/<query_key>/
CheckQuery(key) ==
    IF RowsByKey(key) = {}
    THEN NotFound("check_query")
    ELSE /\ \E i \in RowsByKey(key) : handles' = Object(rows[i])
         /\ last' = Call("check_query", Caller, "ok", FALSE)
         /\ UNCHANGED <<rows, disk, jobs, pending>>

\* get_result: GET /result/<query_key>/; for 'empty_file' send_from_directory
\* finds no file of that name and answers not-found as well
GetResult(key) ==
    IF RowsByKey(key) = {}
    THEN NotFound("get_result")
    ELSE \E i \in RowsByKey(key) :
            IF check_query_finished(disk, rows[i]) = None
            THEN NotFoundFor("get_result", rows[i])
            ELSE IF check_query_finished(disk, rows[i]) = EmptyFile
            THEN NotFoundFor("get_result", rows[i])
            ELSE /\ handles' = Object(rows[i])
                 /\ last' = Call("get_result", Caller, "ok", FALSE)
                 /\ UNCHANGED <<rows, disk, jobs, pending>>

\* show_result: GET /results/<key>/; its except clause names ValueError, so the
\* TypeError of the constructor is not caught
ShowResult(key) ==
    IF RowsByKey(key) = {}
    THEN Raised("show_result", "TypeError")
    ELSE \E i \in RowsByKey(key) :
            IF rows[i].key_parent # << >>
            THEN NotFoundFor("show_result", rows[i])
            ELSE /\ handles' = Object(rows[i])
                 /\ last' = Call("show_result", Caller, "ok", FALSE)
                 /\ UNCHANGED <<rows, disk, jobs, pending>>

\* the frame of a queue_postprocessor request that has made a new analysis
Request(postprocessor, analysis) ==
    [x \in {Caller} |-> [data |-> analysis, postprocessor |-> postprocessor, pc |-> "add_job"]]

\* queue_postprocessor that queues the job before it makes the record
QueuePostprocessor_jobFirst(key, postprocessor, choice) ==
    \E i \in RowsByKey(key) :
       /\ rows[i].key_parent = << >>
       /\ postprocessor \in get_available_postprocessors(rows, rows[i])
       /\ \E made \in Constructions(rows, disk, LabelOf(postprocessor),
                                    RequestOptions(Catalog[postprocessor], choice),
                                    rows[i].key, Catalog[postprocessor].extension) :
             /\ made.is_new
             /\ jobs' = add_job(jobs, postprocessor, made.data.key).jobs
             /\ pending' = Request(postprocessor, made.data)
             /\ handles' = Objects(rows[i], made.data)
             /\ last' = Call("queue_postprocessor", Caller, "new", TRUE)
             /\ UNCHANGED <<rows, disk>>

\* queue_postprocessor that takes any record for a root
QueuePostprocessor_anyRecord(key, postprocessor, choice) ==
    \E i \in RowsByKey(key) :
       /\ postprocessor \in get_available_postprocessors(rows, rows[i])
       /\ \E made \in Constructions(rows, disk, LabelOf(postprocessor),
                                    RequestOptions(Catalog[postprocessor], choice),
                                    rows[i].key, Catalog[postprocessor].extension) :
             /\ rows' = made.rows
             /\ handles' = Objects(rows[i], made.data)
             /\ pending' = IF made.is_new THEN Request(postprocessor, made.data) ELSE << >>
             /\ last' = Call("queue_postprocessor", Caller, IF made.is_new THEN "new" ELSE "ok",
                             made.is_new)
             /\ UNCHANGED <<disk, jobs>>

\* queue_postprocessor that queues a job whether the analysis is new or not
QueuePostprocessor_always(key, postprocessor, choice) ==
    \E i \in RowsByKey(key) :
       /\ rows[i].key_parent = << >>
       /\ postprocessor \in get_available_postprocessors(rows, rows[i])
       /\ \E made \in Constructions(rows, disk, LabelOf(postprocessor),
                                    RequestOptions(Catalog[postprocessor], choice),
                                    rows[i].key, Catalog[postprocessor].extension) :
             /\ rows' = made.rows
             /\ handles' = Objects(rows[i], made.data)
             /\ pending' = Request(postprocessor, made.data)
             /\ last' = Call("queue_postprocessor", Caller, "new", TRUE)
             /\ UNCHANGED <<disk, jobs>>

\* queue_postprocessor: /results/<key>/postprocessors/queue/<postprocessor>/
\* with a request that gives `choice` for the options, up to `if
\* analysis.is_new`; the request ends there unless the analysis is new
QueuePostprocessor(key, postprocessor, choice) ==
    IF RowsByKey(key) = {}
    THEN NotFound("queue_postprocessor")
    ELSE \E i \in RowsByKey(key) :
            IF rows[i].key_parent # << >>
            THEN NotFoundFor("queue_postprocessor", rows[i])
            ELSE IF postprocessor \notin get_available_postprocessors(rows, rows[i])
            THEN NotFoundFor("queue_postprocessor", rows[i])
            ELSE \E made \in Constructions(rows, disk, LabelOf(postprocessor),
                                           RequestOptions(Catalog[postprocessor], choice),
                                           rows[i].key, Catalog[postprocessor].extension) :
                    /\ rows' = made.rows
                    /\ handles' = Objects(rows[i], made.data)
                    /\ UNCHANGED <<disk, jobs>>
                    /\ IF made.is_new
                       THEN /\ pending' = Request(postprocessor, made.data)
                            /\ last' = Call("queue_postprocessor", Caller, "new", TRUE)
                       ELSE /\ pending' = << >>
                            /\ last' = Call("queue_postprocessor", Caller, "ok", FALSE)

\* queue_postprocessor for a new analysis, from queue.add_job to its end: the
\* job is added and the status of the analysis becomes "Queued"
QueueJob ==
    /\ Caller \in DOMAIN pending
    /\ pending[Caller].pc = "add_job"
    /\ LET frame == pending[Caller]
           added == add_job(jobs, frame.postprocessor, frame.data.key)
       IN IF added.out # "ok"
          THEN /\ last' = Call("queue_job", Caller, added.out, FALSE)
               /\ UNCHANGED <<rows, handles, jobs>>
          ELSE /\ jobs' = added.jobs
               /\ rows' = db_update(rows, MatchKey(rows, frame.data), "status", "Queued")
               /\ handles' = [handles EXCEPT ![Analysis].data.status = "Queued"]
               /\ last' = Call("queue_job", Caller, "ok", TRUE)
    /\ pending' = << >>
    /\ UNCHANGED disk

\* a worker runs a job of the queue: it loads the record of the job, writes
\* the result file and its last status and finishes the record, and the job
\* leaves the queue
RunJob(job) ==
    /\ job \in jobs
    /\ \E i \in RowsByKey(job[2]) :
          /\ ~FinishRaises(rows[i])
          /\ disk' = [open_w(disk, NameOf(get_results_path(rows[i])))
                         EXCEPT ![NameOf(get_results_path(rows[i]))] = "complete"]
          /\ rows' = db_update(FinishRows(rows[i], MaxNumRows), MatchKey(rows, rows[i]),
                               "status", "Finished")
    /\ jobs' = jobs \ {job}
    /\ last' = Call("run_job", "-", "ok", FALSE)
    /\ UNCHANGED <<handles, pending>>

\* The web tool, one request at a time: searches are registered, looked at and
\* given post-processors, while workers run the jobs of the queue.
NextWeb ==
    \/ \E q \in Queries, e \in OneExtension :
          /\ pending = << >>
          /\ Room(q, << >>)
          /\ ResolveOrCreate(Caller, q, << >>, << >>, e)
          /\ UNCHANGED <<jobs, pending>>
    \/ \E valid \in Validations, p \in OneParameters :
          pending = << >> /\ StringQuery(valid, <<"4", "c">>, p)
    \/ \E k \in WebKeys : pending = << >> /\ CheckQuery(k)
    \/ \E k \in WebKeys : pending = << >> /\ GetResult(k)
    \/ \E k \in WebKeys : pending = << >> /\ ShowResult(k)
    \/ \E k \in WebKeys, t \in DOMAIN EarlierCatalog, c \in Choices :
          /\ pending = << >>
          /\ Room(LabelOf(t), RequestOptions(EarlierCatalog[t], c))
          /\ QueuePostprocessor(k, t, c)
    \/ QueueJob
    \/ \E job \in jobs : RunJob(job)

SpecWeb == Init /\ [][NextWeb]_vars

\* ------------------------------------------- the constructor, step by step
\* the frame of a constructor call that found no row: its arguments, the
\* self.data it made, the statement it is at and the name it has probed
Frame(query, parameters, parent, extension) ==
    [data |-> NewData(KeyTable[query, parameters], query, parameters, parent),
     extension |-> extension, pc |-> "insert", file |-> << >>]

\* the frames without the one of h
Return(h) == [x \in DOMAIN pending \ {h} |-> pending[x]]

\* SearchQuery.__init__ up to `if current`: the row is found and loaded, or
\* self.data is made
ConstructLookup(h, query, parameters, parent, extension) ==
    /\ Free(h)
    /\ h \notin DOMAIN pending
    /\ IF RowsByKeyAndQuery(KeyTable[query, parameters], query) # {}
       THEN /\ \E i \in RowsByKeyAndQuery(KeyTable[query, parameters], query) :
                  handles' = Bind(h, Handle(rows[i]))
            /\ last' = Call("create", h, "ok", FALSE)
            /\ UNCHANGED <<rows, disk, jobs, pending>>
       ELSE /\ pending' = [x \in DOMAIN pending \cup {h} |->
                              IF x = h THEN Frame(query, parameters, parent, extension)
                              ELSE pending[x]]
            /\ last' = Call("lookup", h, "ok", FALSE)
            /\ UNCHANGED <<rows, disk, handles, jobs>>

\* SearchQuery.__init__, self.db.insert("queries", data=self.data).  When the
\* table has a row with the key by now, the insert adds a second one if the
\* table has no unique index on key, and fails if it has one.
ConstructInsert(h, unique) ==
    /\ h \in DOMAIN pending
    /\ pending[h].pc = "insert"
    /\ IF unique /\ RowsByKey(pending[h].data.key) # {}
       THEN /\ pending' = Return(h)
            /\ last' = Call("create", h, "IntegrityError", FALSE)
            /\ UNCHANGED <<rows, disk, handles, jobs>>
       ELSE /\ Len(rows) < MaxRecords
            /\ rows' = db_insert(rows, pending[h].data)
            /\ pending' = [pending EXCEPT ![h].pc = "probe"]
            /\ last' = Call("insert", h, "ok", FALSE)
            /\ UNCHANGED <<disk, handles, jobs>>

\* reserve_result_file in the constructor, up to the end of its while loop
ConstructProbe(h) ==
    /\ h \in DOMAIN pending
    /\ pending[h].pc = "probe"
    /\ ~ReserveRaises(pending[h].data)
    /\ pending' = [pending EXCEPT ![h].pc = "update",
                                  ![h].file = ReservedName(disk, pending[h].data,
                                                           pending[h].extension)]
    /\ last' = Call("probe", h, "ok", FALSE)
    /\ UNCHANGED <<rows, disk, handles, jobs>>

\* reserve_result_file in the constructor, its update of result_file; the
\* constructor returns
ConstructUpdate(h) ==
    /\ h \in DOMAIN pending
    /\ pending[h].pc = "update"
    /\ rows' = db_update(rows, MatchQueryAndKey(rows, pending[h].data),
                         "result_file", pending[h].file)
    /\ handles' = Bind(h, Handle([pending[h].data EXCEPT !.result_file = pending[h].file]))
    /\ pending' = Return(h)
    /\ last' = Call("create", h, "ok", TRUE)
    /\ UNCHANGED <<disk, jobs>>

\* Two processes construct SearchQuery objects for the same pairs, statement
\* by statement, and write the result files of the records they hold.
NextConcurrent ==
    \/ \E h \in Handles, qp \in RootPairs, e \in OneExtension :
          ConstructLookup(h, qp[1], qp[2], << >>, e)
    \/ \E h \in Handles, unique \in BOOLEAN : ConstructInsert(h, unique)
    \/ \E h \in Handles : ConstructProbe(h)
    \/ \E h \in Handles : ConstructUpdate(h)
    \/ \E h \in Handles \ DOMAIN pending, d \in CsvData :
          WriteCsvOpen(h, d) /\ UNCHANGED <<jobs, pending>>
    \/ \E h \in Handles : WriteCsvClose(h) /\ UNCHANGED <<jobs, pending>>
    \/ \E h \in Handles : WriteCsvFinish(h) /\ UNCHANGED <<jobs, pending>>

SpecConcurrent == Init /\ [][NextConcurrent]_vars

\* ------------------------------------------------ reservations on a folder
\* the i-th name reserve_result_file tries for a record: slug-key.ext for
\* i = 0 and slug-key-i.ext after that
NameAt(data, ext, i) ==
    QueryBit(data.query) \o <<"-">> \o data.key
       \o (IF i = 0 THEN << >> ELSE <<"-">> \o Str(i)) \o <<".">> \o Lower(ext)

\* the record of the first query as the constructor makes it
FirstRecord ==
    CHOOSE data \in { NewData(KeyTable[q, << >>], q, << >>, << >>) : q \in OneQuery } : TRUE

\* files that may lie in the results folder when the reservations begin: the
\* first three names of the first record, and its second name as a zip file
ProbeFiles ==
    { NameAt(FirstRecord, <<"c", "s", "v">>, i) : i \in 0..2 }
       \cup { NameAt(FirstRecord, <<"Z", "I", "P">>, 1) }

\* Database.delete("queries", where={"key": key}): an administrator removes a
\* record
DeleteRecord(key) ==
    /\ RowsByKey(key) # {}
    /\ rows' = SelectSeq(rows, LAMBDA row : row.key # key)
    /\ last' = Call("delete", "-", "ok", TRUE)
    /\ UNCHANGED <<disk, handles, jobs, pending>>

InitReserve ==
    /\ rows = << >>
    /\ disk \in { [f \in S |-> "complete"] : S \in SUBSET ProbeFiles }
    /\ handles = << >>
    /\ last = Call("init", "-", "ok", FALSE)
    /\ jobs = {}
    /\ pending = << >>

\* Records are made and their result files reserved again, with both
\* extensions, in a results folder that holds files from earlier; records are
\* removed from the table while objects for them are alive.
NextReserve ==
    \/ \E h \in Handles, q \in Queries, e \in Extensions :
          ResolveOrCreate(h, q, << >>, << >>, e)
          /\ UNCHANGED <<jobs, pending>>
    \/ \E h \in Handles, e \in Extensions : ReserveResultFile(h, e)
          /\ UNCHANGED <<jobs, pending>>
    \/ \E k \in RootKeys : DeleteRecord(k)

SpecReserve == InitReserve /\ [][NextReserve]_vars

\* ---------------------------------------------------------------- claims
\* the rows of the table that are the record of self.data
Stored(rs, data) == { i \in DOMAIN rs : rs[i].key = data.key /\ rs[i].query = data.query }

\* slug-key.ext, the first name reserve_result_file tries
BaseName(data, ext) == QueryBit(data.query) \o <<"-">> \o data.key \o <<".">> \o Lower(ext)

\* slug-key-1.ext, the second name
SecondName(data, ext) ==
    QueryBit(data.query) \o <<"-">> \o data.key \o <<"-", "1", ".">> \o Lower(ext)

\* C1: resolve-or-create with a (query, parameters) pair returns a record with
\* the key of that pair; when the key already has a row nothing is inserted;
\* afterwards the table holds exactly one row with that key.
C1_ResolveOrCreateIdempotent ==
    [][\A h \in Handles, qp \in Pairs, e \in OneExtension :
          (last'.op = "create" /\ last'.h = h /\ ResolveOrCreate(h, qp[1], qp[2], << >>, e)) =>
             LET key == KeyTable[qp[1], qp[2]]
             IN /\ handles'[h].data.key = key
                /\ ({ i \in DOMAIN rows : rows[i].key = key } # {} => rows' = rows)
                /\ Cardinality({ i \in DOMAIN rows' : rows'[i].key = key }) = 1]_vars

\* a third record exists and a pair was resolved again without an insert
C1_Witness == last.op = "create" /\ ~last.ret /\ Len(rows) = 3

\* C2: a stored is_finished never goes back to false, no row disappears, and
\* is_finished and num_rows of a row change only in a successful finish()
\* (called directly or as the last line of write_csv_and_finish).
C2_FinishedOneWay ==
    [][/\ DOMAIN rows \subseteq DOMAIN rows'
       /\ \A i \in DOMAIN rows :
             /\ rows[i].is_finished => rows'[i].is_finished
             /\ (rows'[i].is_finished # rows[i].is_finished \/ rows'[i].num_rows # rows[i].num_rows)
                   => last'.op \in {"finish", "write_csv"} /\ last'.out = "ok"]_vars

\* set_empty has just run on a record that is finished with rows
C2_Witness ==
    /\ last.op = "set_empty"
    /\ \E i \in DOMAIN rows : rows[i].is_finished /\ rows[i].num_rows = MaxNumRows /\ rows[i].is_empty

\* C3: finish() through an object whose is_finished is true raises and changes
\* neither the table nor the object nor the results folder.
C3_FinishTwiceFails ==
    [][\A h \in DOMAIN handles :
          (last'.op = "finish" /\ last'.h = h /\ handles[h].data.is_finished)
             => (last'.out = "RuntimeError" /\ UNCHANGED <<rows, handles, disk>>)]_vars

\* a second finish() has failed and the row count of the first is still there
C3_Witness ==
    /\ last.op = "finish" /\ last.out = "RuntimeError"
    /\ handles[last.h].data.num_rows = MaxNumRows
    /\ \A i \in Stored(rows, handles[last.h].data) : rows[i].num_rows = MaxNumRows

\* C4: finish(n) through an object whose is_finished is false succeeds, and
\* afterwards the object and its stored row have is_finished = true and
\* num_rows = n.
C4_FinishStores ==
    [][\A h \in DOMAIN handles, n \in NumRows :
          (Finish(h, n) /\ ~handles[h].data.is_finished)
             => /\ last'.out = "ok"
                /\ handles'[h].data.is_finished /\ handles'[h].data.num_rows = n
                /\ Stored(rows', handles'[h].data) # {}
                /\ \A i \in Stored(rows', handles'[h].data) :
                      rows'[i].is_finished /\ rows'[i].num_rows = n]_vars

\* finish(MaxNumRows) has succeeded
C4_Witness ==
    /\ last.op = "finish" /\ last.out = "ok"
    /\ handles[last.h].data.num_rows = MaxNumRows
    /\ \E i \in Stored(rows, handles[last.h].data) : rows[i].num_rows = MaxNumRows

\* C5: a record is finished once: a finish() succeeds only on a record whose
\* stored is_finished is false, whichever object it is called through.
C5_FinishedOnce ==
    [][\A h \in DOMAIN handles :
          (last'.op \in {"finish", "write_csv"} /\ last'.h = h /\ last'.out = "ok")
             => \A i \in Stored(rows, handles[h].data) : ~rows[i].is_finished]_vars

\* C6: no two rows of the table have the same non-empty result_file.
C6_ResultFileOwned ==
    \A i, j \in DOMAIN rows :
        (i # j /\ rows[i].result_file # << >>) => rows[i].result_file # rows[j].result_file

\* three records, two of them with one slug, one of them pushed to its second
\* name by a file that was already there
C6_Witness ==
    /\ Len(rows) = 3
    /\ \E i, j \in DOMAIN rows :
          rows[i].query # rows[j].query /\ QueryBit(rows[i].query) = QueryBit(rows[j].query)
    /\ \E i \in DOMAIN rows : rows[i].result_file = SecondName(rows[i], <<"c", "s", "v">>)

\* C7: a reservation (by reserve_result_file, or by the constructor for a new
\* record) leaves the results folder as it is and chooses a name at which
\* there is no file.
C7_ReserveAvoidsFiles ==
    [][\A h \in Handles :
          (/\ last'.h = h /\ last'.out = "ok"
           /\ (last'.op = "reserve" \/ (last'.op = "create" /\ last'.ret)))
             => /\ disk' = disk
                /\ handles'[h].data.result_file \notin DOMAIN disk
                /\ ~isfile(disk, get_results_path(handles'[h].data))]_vars

\* the first name was taken on disk and the reservation chose the second
C7_Witness ==
    /\ last.op = "reserve" /\ last.out = "ok"
    /\ BaseName(handles[last.h].data, <<"c", "s", "v">>) \in DOMAIN disk
    /\ handles[last.h].data.result_file = SecondName(handles[last.h].data, <<"c", "s", "v">>)

\* C8: reserve_result_file() through an object whose is_finished is true
\* raises and leaves result_file as it is, in the table and in the object.
C8_ReserveFinishedFails ==
    [][\A h \in DOMAIN handles :
          (last'.op = "reserve" /\ last'.h = h /\ handles[h].data.is_finished)
             => (last'.out = "RuntimeError" /\ UNCHANGED <<rows, handles, disk>>)]_vars

\* a reservation on a finished record has failed
C8_Witness ==
    /\ last.op = "reserve" /\ last.out = "RuntimeError"
    /\ \A i \in Stored(rows, handles[last.h].data) :
          rows[i].is_finished /\ rows[i].result_file = handles[last.h].data.result_file

\* C9: check_query_finished returns None before finish(), 'empty_file' after
\* finish(0) and set_empty() when no result file is on disk, and the path of
\* the result file after finish(n > 0) when that file is on disk.
C9_CheckQueryFinished ==
    \A h \in DOMAIN handles :
        LET data == handles[h].data
            ret == check_query_finished(disk, data)
            on_disk == isfile(disk, get_results_path(data))
        IN /\ ~data.is_finished => ret = None
           /\ (last.op = "set_empty" /\ last.h = h /\ data.is_finished
                  /\ data.num_rows = 0 /\ ~on_disk) => ret = EmptyFile
           /\ (data.is_finished /\ data.num_rows > 0 /\ on_disk) => ret = get_results_path(data)

\* C10: whenever check_query_finished returns a path, the record is finished
\* and the file at that path is completely written.
C10_PathMeansComplete ==
    \A h \in DOMAIN handles :
        LET data == handles[h].data
            ret == check_query_finished(disk, data)
        IN (handles[h].pc = "idle" /\ ret # None /\ ret # EmptyFile)
              => /\ \A i \in Stored(rows, data) : rows[i].is_finished
                 /\ disk[NameOf(ret)] = "complete"

\* C11: SearchQuery(key=k) for a key that no row has raises TypeError and
\* changes nothing: no row is inserted, no result file reserved, no object made.
C11_UnknownKeyFails ==
    [][\A h \in Handles, k \in Keys :
          (/\ last'.op = "load" /\ last'.h = h
           /\ \A i \in DOMAIN rows : rows[i].key # k
           /\ ResolveByKey(h, k))
             => (last'.out = "TypeError" /\ UNCHANGED <<rows, disk, handles>>)]_vars

\* a load has failed while the table holds rows with other keys
C11_Witness == last.op = "load" /\ last.out = "TypeError" /\ Len(rows) >= 2

\* C12: SearchQuery() with no key and with query or parameters missing raises
\* TypeError and leaves the table, the results folder and the objects as they are.
C12_MissingArgumentsFail ==
    [][\A h \in Handles :
          (last'.op = "construct" /\ last'.h = h)
             => (last'.out = "TypeError" /\ UNCHANGED <<rows, disk, handles>>)]_vars

\* the constructor has failed while the table holds rows
C12_Witness == last.op = "construct" /\ last.out = "TypeError" /\ Len(rows) >= 2

\* s ends with suffix
EndsWith(s, suffix) ==
    /\ Len(s) >= Len(suffix)
    /\ SubSeq(s, Len(s) - Len(suffix) + 1, Len(s)) = suffix

\* every (query, parameters) pair of the specification of analyses
AllPairs == RootPairs \cup AnalysisPairs

\* C13: resolve-or-create for a pair whose row is stored writes nothing, whatever
\* parent and extension the call gives: the table and the results folder stay
\* as they are and the object carries the stored row.
C13_FoundIsNotWritten ==
    [][(/\ last'.op = "create"
        /\ \E i \in DOMAIN rows : rows[i].key = handles'[Caller].data.key)
          => /\ ~last'.ret
             /\ UNCHANGED <<rows, disk>>
             /\ \E i \in DOMAIN rows : handles'[Caller].data = rows[i]]_vars

\* an analysis with a parent and a .zip file has been resolved again
C13_Witness ==
    /\ last.op = "create" /\ ~last.ret
    /\ handles[Caller].data.key_parent # << >>
    /\ EndsWith(handles[Caller].data.result_file, <<".", "z", "i", "p">>)

\* the object and the stored row of a record that was just made, with a
\* result file that ends in "." and ext
NewRecordState(ext) ==
    LET data == handles'[Caller].data
    IN /\ data.status = "" /\ ~data.is_finished /\ ~data.is_empty
       /\ data.result_file # << >>
       /\ EndsWith(data.result_file, <<".">> \o ext)
       /\ Stored(rows', data) # {}
       /\ \A i \in Stored(rows', data) :
             /\ rows'[i].status = "" /\ ~rows'[i].is_finished /\ ~rows'[i].is_empty
             /\ rows'[i].result_file = data.result_file

\* C14, as amended: when resolve-or-create finds no row, the record it returns
\* and the stored row have status "", is_finished false, is_empty false and
\* one non-empty result_file, which ends in the requested extension in lower case.
C14_NewRecordDefaults ==
    [][\A qp \in AllPairs, parent \in Parents, e \in Extensions :
          (last'.op = "create" /\ last'.ret /\ ResolveOrCreate(Caller, qp[1], qp[2], parent, e))
             => NewRecordState(Lower(e))]_vars

\* a record was made with the extension ZIP
C14_Witness ==
    /\ last.op = "create" /\ last.ret
    /\ EndsWith(handles[Caller].data.result_file, <<".", "z", "i", "p">>)

\* C14, as claimed: ... and a non-empty result_file ending in the requested
\* extension.
C14_NewRecordExtension ==
    [][\A qp \in AllPairs, parent \in Parents, e \in Extensions :
          (last'.op = "create" /\ last'.ret /\ ResolveOrCreate(Caller, qp[1], qp[2], parent, e))
             => NewRecordState(e)]_vars

\* C18: a record made with a parent is stored with that key_parent, is in the
\* children listing of that root and of no other, and is not in the root
\* listing; a record made without a parent is in the root listing and in no
\* children listing; and the key_parent of a stored row never changes.
C18_ParentDecidesListing ==
    [][/\ \A i \in DOMAIN rows : i \in DOMAIN rows' /\ rows'[i].key_parent = rows[i].key_parent
       /\ \A qp \in AllPairs, parent \in Parents, e \in Extensions :
             (last'.op = "create" /\ last'.ret /\ ResolveOrCreate(Caller, qp[1], qp[2], parent, e))
                => LET n == Len(rows')
                       others == (RootKeys \cup { rows'[i].key : i \in DOMAIN rows' }) \ {parent}
                   IN /\ rows'[n].key = KeyTable[qp[1], qp[2]]
                      /\ rows'[n].key_parent = parent
                      /\ \A k \in others : n \notin ChildrenListing(rows', k)
                      /\ IF parent = << >>
                         THEN n \in RootListing(rows')
                         ELSE n \in ChildrenListing(rows', parent) /\ n \notin RootListing(rows')]_vars

\* both roots are stored and an analysis was just made under the second
C18_Witness ==
    /\ last.op = "create" /\ last.ret
    /\ \A k \in RootKeys : \E i \in RootListing(rows) : rows[i].key = k
    /\ \E i \in DOMAIN rows :
          /\ i = Len(rows) /\ i > 1
          /\ rows[i].key_parent \in RootKeys
          /\ rows[i].key_parent = rows[2].key

\* C15: update_status(text) overwrites the status, also of a finished record:
\* after the call the stored status and the object's get_status() are the text
\* of the call, and the call returns true exactly when a row has the object's
\* key; no other call changes the stored status or the writer's get_status().
C15_LastStatusWins ==
    [][IF last'.op = "update_status"
       THEN \E s \in StatusTexts :
               /\ UpdateStatus(Writer, s)
               /\ handles'[Writer].data.status = s
               /\ \A i \in DOMAIN rows' :
                     rows'[i].status = IF rows[i].key = handles[Writer].data.key
                                       THEN s ELSE rows[i].status
               /\ last'.ret = (\E i \in DOMAIN rows : rows[i].key = handles[Writer].data.key)
       ELSE /\ \A i \in DOMAIN rows : rows'[i].status = rows[i].status
            /\ Writer \in DOMAIN handles =>
                  handles'[Writer].data.status = handles[Writer].data.status]_vars

\* the status of a finished record was overwritten; the reader loaded the
\* record before and still carries the status of then
C15_Witness ==
    /\ last.op = "update_status" /\ last.ret
    /\ handles[Writer].data.is_finished /\ handles[Writer].data.status = "Finished"
    /\ Reader \in DOMAIN handles /\ handles[Reader].data.status = "Writing results file"
    /\ \A i \in DOMAIN rows : rows[i].status = "Finished"

\* C16: a stored record with is_empty = true is finished and has no rows.
C16_EmptyMeansFinishedWithoutRows ==
    \A i \in DOMAIN rows : rows[i].is_empty => (rows[i].is_finished /\ rows[i].num_rows = 0)

\* C17: set_empty() stores is_empty = true for the object's record and changes
\* nothing else: the other columns, the other rows, the results folder and the
\* objects stay as they are; called for a record that is stored as empty it
\* changes nothing at all.
C17_SetEmptyIdempotent ==
    [][\A h \in DOMAIN handles :
          (last'.op = "set_empty" /\ last'.h = h)
             => /\ Stored(rows, handles[h].data) # {}
                /\ rows' = [i \in DOMAIN rows |->
                               IF i \in Stored(rows, handles[h].data)
                               THEN [rows[i] EXCEPT !.is_empty = TRUE] ELSE rows[i]]
                /\ UNCHANGED <<disk, handles>>
                /\ (\A i \in Stored(rows, handles[h].data) : rows[i].is_empty) => rows' = rows]_vars

\* set_empty() was called again, through an object that was made after the
\* first call, on a finished record with a status
C17_Witness ==
    /\ last.op = "set_empty"
    /\ handles[last.h].data.is_empty /\ handles[last.h].data.is_finished
    /\ handles[last.h].data.status = "Queued"
    /\ \A i \in Stored(rows, handles[last.h].data) : rows[i] = handles[last.h].data

\* the children of a root that have this type
ChildrenOfType(rs, row, type) ==
    { j \in DOMAIN rs : rs[j].key_parent = row.key /\ TypeOf(rs[j]) = type }

\* C19: for a root, the post-processors still available are the compatible
\* ones of the catalog, less every one that has no options and has a child of
\* its type under this root; one with options stays available.
C19_StillAvailable ==
    \A i \in RootListing(rows) :
        available_postprocessors(rows, rows[i]) =
            { t \in get_compatible_postprocessors(rows[i]) :
                ~(Catalog[t].options = {} /\ ChildrenOfType(rows, rows[i], t) # {}) }

\* a root has a child of the type without options and two of the type with
\* options: only the type with options is still available
C19_Witness ==
    \E i \in RootListing(rows) :
        /\ ChildrenOfType(rows, rows[i], <<"t", "o", "p">>) # {}
        /\ ChildrenOfType(rows, rows[i], <<"t", "o", "k">>) # {}
        /\ available_postprocessors(rows, rows[i]) = { <<"t", "o", "k">> }

\* C20: every listing of the children of a root (show_result, show_results,
\* check_postprocessor) returns all direct children, and a child whose type is
\* not in the catalog is among them, with empty metadata.
C20_ListingsKeepOldTypes ==
    \A i \in RootListing(rows) :
        LET children == ChildrenListing(rows, rows[i].key)
            shown == show_result_subqueries(rows, rows[i])
            checked == check_postprocessor(rows, { rows[j].key : j \in children })
        IN /\ DOMAIN shown = children
           /\ \A j \in children :
                 TypeOf(rows[j]) \notin DOMAIN Catalog => DOMAIN shown[j] = {}
           /\ show_results_subqueries(rows, rows[i]) = children
           /\ checked.out = "ok" /\ checked.subqueries = children

\* C21: a search that is submitted ends with the key of its record returned:
\* the record is stored, a repeated submission leaves the table as it is, and
\* the queue holds one job for the record.
C21_SubmitReturnsKey ==
    [][(last'.op = "string_query" /\ last'.out # "invalid")
          => /\ last'.out = "ok"
             /\ \E i \in DOMAIN rows' : rows'[i].key = handles'[Caller].data.key
             /\ (~last'.ret => rows' = rows)
             /\ Cardinality({ j \in jobs' : j[2] = handles'[Caller].data.key }) = 1]_vars

\* C22: a request of check_query, get_result, show_result or queue_postprocessor
\* for a key that no record has is answered not-found and changes nothing; the
\* error of the constructor does not end the request.
C22_UnknownKeyIsNotFound ==
    [][\A k \in WebKeys :
          (/\ RowsByKey(k) = {}
           /\ last'.op \in {"check_query", "get_result", "show_result", "queue_postprocessor"}
           /\ (\/ CheckQuery(k)
               \/ GetResult(k)
               \/ ShowResult(k)
               \/ \E t \in DOMAIN EarlierCatalog, c \in Choices : QueuePostprocessor(k, t, c)))
             => (last'.out = "404" /\ handles' = << >> /\ UNCHANGED <<rows, disk, jobs>>)]_vars

\* C23: when the constructor calls of two processes for the same pair have
\* ended, whatever the order of their statements was, each has ended without
\* an exception, the table has one row for a key, and the objects that carry
\* a key agree on its result_file.
C23_InterleavedIdempotent ==
    pending = << >> =>
        /\ last.op = "create" => last.out = "ok"
        /\ \A i, j \in DOMAIN rows : rows[i].key = rows[j].key => i = j
        /\ \A g, h \in DOMAIN handles :
              handles[g].data.key = handles[h].data.key
                 => handles[g].data.result_file = handles[h].data.result_file

C25_ProbeIsSequential ==
    [][\A h \in Handles, e \in Extensions :
          (/\ last'.op = "reserve" /\ last'.out = "ok" /\ last'.h = h
           /\ ReserveResultFile(h, e))
             => \E i \in 0..Cardinality(DOMAIN disk) :
                   /\ handles'[h].data.result_file = NameAt(handles[h].data, e, i)
                   /\ NameAt(handles[h].data, e, i) \notin DOMAIN disk
                   /\ \A j \in 0..(i - 1) : NameAt(handles[h].data, e, j) \in DOMAIN disk]_vars

\* the first name and the name with -1 were taken and the reservation chose
\* the name with -2; the zip file with -1 in the folder did not count
C25_Witness ==
    /\ last.op = "reserve" /\ last.out = "ok"
    /\ NameAt(handles[last.h].data, <<"c", "s", "v">>, 0) \in DOMAIN disk
    /\ NameAt(handles[last.h].data, <<"c", "s", "v">>, 1) \in DOMAIN disk
    /\ NameAt(handles[last.h].data, <<"Z", "I", "P">>, 1) \in DOMAIN disk
    /\ handles[last.h].data.result_file = NameAt(handles[last.h].data, <<"c", "s", "v">>, 2)

\* C26: reserve_result_file on an object that is not finished does not raise:
\* it returns true exactly when a row had the object's query and key, and then
\* every such row holds the chosen name; when no row matched it returns false
\* and the table stays as it is.
C26_ReserveReportsBoolean ==
    [][\A h \in Handles, e \in Extensions :
          (/\ last'.op = "reserve" /\ last'.h = h
           /\ ~handles[h].data.is_finished
           /\ ReserveResultFile(h, e))
             => /\ last'.out = "ok"
                /\ last'.ret = (Stored(rows, handles[h].data) # {})
                /\ handles'[h].data.result_file = ReservedName(disk, handles[h].data, e)
                /\ \A i \in Stored(rows', handles'[h].data) :
                      rows'[i].result_file = handles'[h].data.result_file
                /\ (~last'.ret => rows' = rows)]_vars

\* a reservation has returned false: the record had been removed from the
\* table, which holds another record
C26_Witness ==
    /\ last.op = "reserve" /\ last.out = "ok" /\ ~last.ret
    /\ Stored(rows, handles[last.h].data) = {}
    /\ Len(rows) = 1

C30_HandleAgreesWithStore ==
    [][DOMAIN handles' = {Writer} =>
          /\ \A i \in Stored(rows', handles'[Writer].data) :
                /\ rows'[i].is_finished = handles'[Writer].data.is_finished
                /\ rows'[i].status = handles'[Writer].data.status
                /\ rows'[i].result_file = handles'[Writer].data.result_file
                /\ rows'[i].is_empty = handles'[Writer].data.is_empty
                /\ handles'[Writer].data.num_rows # Absent
                      => rows'[i].num_rows = handles'[Writer].data.num_rows
          /\ (/\ last'.op = "reserve" /\ last'.out = "ok"
              /\ handles[Writer].data.result_file \notin DOMAIN disk)
                => handles'[Writer].data.result_file = handles[Writer].data.result_file]_vars

====
